---- MODULE Spec2Model ----
(***************************************************************************)
(* RAII thread wrappers of listings 3 and 4: thread_guard (borrows a       *)
(* std::thread by reference, joins it in the destructor when joinable) and *)
(* scoped_thread (takes a std::thread by move, refuses a non-joinable one  *)
(* in the constructor, joins unconditionally in the destructor).           *)
(*                                                                         *)
(* One enclosing scope is modelled: it declares the handle t1, optionally  *)
(* launches func on it, wraps it, runs a body in which the caller may join *)
(* or detach t1, and leaves by fall-through, return or a thrown error.     *)
(* The worker runs func::operator() concurrently.                          *)
(*                                                                         *)
(* The two file-copy programs of listing 2 are modelled next to it:        *)
(* sequential.cpp calls write_to_file for input1 and then for input2,      *)
(* concurrent.cpp runs the two calls on two threads and joins both.        *)
(* prog selects the program a behaviour runs.                              *)
(***************************************************************************)
EXTENDS Integers, Naturals, FiniteSets, Sequences, TLC

\* Number of iterations of the loop in func::operator() (1000000 in the
\* source, scaled down).
MaxIter == 24

\* Largest number of lines of an input file.
MaxLines == 2

VARIABLES
    prog,       \* the program: "guard" or "scoped" (which wrapper the scope
                \* uses), "sequential" or "concurrent" (file copy)
    pc,         \* position of the scope's thread ("idle" in the file copies)
    exitKind,   \* how the scope was left: "none", "fallthrough", "return", "throw"
    exc,        \* exception in flight / raised: "none", "logic_error", "system_error", "error"
    t1,         \* state of the caller's std::thread t1
    s_t,        \* state of scoped_thread's member t ("none" while no wrapper was attempted)
    argState,   \* state of the handle handed to the scoped_thread constructor
    wrapper,    \* "none", "constructed", "joining", "disposed", "failed"
    joins,      \* number of join() calls issued by the wrapper
    worker,     \* "none", "running", "done"
    endless,    \* TRUE when the launched callable never returns
    j,          \* loop variable of func::operator()
    counter,    \* number of side effects (do_something calls) performed by the worker
    seen,       \* value of counter read by the scope's thread after the scope, -1 before
    aborted,    \* std::terminate was called
    \* file copy (listing 2)
    mpc,        \* position of main
    wpc,        \* wpc[i]: position of the write_to_file call for input i
    pos,        \* pos[i]: number of lines of input i read so far
    inLen,      \* inLen[i]: number of lines of input i
    inOk,       \* inOk[i]: input i can be opened
    outOk,      \* the output file can be opened for appending
    prior,      \* content of the output file before the run
    output,     \* content of the output file
    exitCode    \* value returned by main, -1 while it runs

\* The variables of the file copies.
copyVars == <<mpc, wpc, pos, inLen, inOk, outOk, prior, output, exitCode>>

vars == <<prog, pc, exitKind, exc, t1, s_t, argState, wrapper, joins,
          worker, endless, j, counter, seen, aborted,
          mpc, wpc, pos, inLen, inOk, outOk, prior, output, exitCode>>

\* Line k of input i.
Line(i, k) == <<i, k>>

\* The lines of input i, in order.
Lines(i) == [k \in 1..inLen[i] |-> Line(i, k)]

\* What the output file may hold before the run: nothing, a line of its
\* own, or the first line of input1 left by an earlier run.
PriorContents == {<< >>, <<Line(0, 0)>>, <<Line(1, 1)>>}

HandleStates == {"unstarted", "joinable", "joined", "detached", "moved"}

\* std::thread::joinable()
Joinable(h) == h = "joinable"

\* std::thread::join() on a joinable handle returns once the thread of
\* execution has finished.
JoinCompletes == worker = "done"

TypeOK ==
    /\ prog \in {"guard", "scoped", "sequential", "concurrent"}
    /\ pc \in {"idle", "decl", "pre", "body", "leave", "after", "exited"}
    /\ exitKind \in {"none", "fallthrough", "return", "throw"}
    /\ exc \in {"none", "logic_error", "system_error", "error"}
    /\ t1 \in HandleStates
    /\ s_t \in HandleStates \cup {"none"}
    /\ argState \in HandleStates \cup {"none"}
    /\ wrapper \in {"none", "constructed", "joining", "disposed", "failed"}
    /\ joins \in Nat
    /\ worker \in {"none", "running", "done"}
    /\ endless \in BOOLEAN
    /\ j \in 0..MaxIter
    /\ counter \in 0..MaxIter
    /\ seen \in -1..MaxIter
    /\ aborted \in BOOLEAN
    /\ mpc \in {"idle", "start", "in1", "in2", "spawn2", "join1", "join2",
                "stop", "exit"}
    /\ wpc \in [1..2 -> {"idle", "open", "loop", "done"}]
    /\ pos \in [1..2 -> 0..MaxLines]
    /\ inLen \in [1..2 -> 0..MaxLines]
    /\ inOk \in [1..2 -> BOOLEAN]
    /\ outOk \in BOOLEAN
    /\ prior \in PriorContents
    /\ output \in Seq({Line(i, k) : i \in 0..2, k \in 0..MaxLines})
    /\ exitCode \in {-1, 0, 1}

\* The file system the copy programs start in.
CopyInit ==
    /\ mpc = "start"
    /\ wpc = [i \in 1..2 |-> "idle"]
    /\ pos = [i \in 1..2 |-> 0]
    /\ inLen \in [1..2 -> 0..MaxLines]
    /\ inOk \in [1..2 -> BOOLEAN]
    /\ outOk \in BOOLEAN
    /\ prior \in PriorContents
    /\ output = prior
    /\ exitCode = -1

\* The file copy is not part of the wrapper programs.
CopyIdle ==
    /\ mpc = "idle"
    /\ wpc = [i \in 1..2 |-> "idle"]
    /\ pos = [i \in 1..2 |-> 0]
    /\ inLen = [i \in 1..2 |-> 0]
    /\ inOk = [i \in 1..2 |-> TRUE]
    /\ outOk = TRUE
    /\ prior = << >>
    /\ output = << >>
    /\ exitCode = -1

Init ==
    /\ prog \in {"guard", "scoped", "sequential", "concurrent"}
    /\ IF prog \in {"guard", "scoped"}
          THEN pc = "decl" /\ CopyIdle
          ELSE pc = "idle" /\ CopyInit
    /\ exitKind = "none"
    /\ exc = "none"
    /\ t1 = "unstarted"
    /\ s_t = "none"
    /\ argState = "none"
    /\ wrapper = "none"
    /\ joins = 0
    /\ worker = "none"
    /\ endless = FALSE
    /\ j = 0
    /\ counter = 0
    /\ seen = -1
    /\ aborted = FALSE

----------------------------------------------------------------------------
\* The worker: func::operator()

\* One iteration of the loop: do_something(i), ++j.
WorkerStep ==
    /\ ~aborted
    /\ worker = "running"
    /\ j < MaxIter
    /\ j' = j + 1
    /\ counter' = counter + 1
    /\ UNCHANGED copyVars
    /\ UNCHANGED <<prog, pc, exitKind, exc, t1, s_t, argState, wrapper, joins,
                   worker, endless, seen, aborted>>

\* Variant of WorkerFinish in which the end of the callable releases the
\* handle, as if a finished thread were no longer joinable.
WorkerFinish_Releases ==
    /\ ~aborted
    /\ worker = "running"
    /\ ~endless
    /\ j = MaxIter
    /\ worker' = "done"
    /\ t1' = IF Joinable(t1) THEN "joined" ELSE t1
    /\ s_t' = IF Joinable(s_t) THEN "joined" ELSE s_t
    /\ UNCHANGED copyVars
    /\ UNCHANGED <<prog, pc, exitKind, exc, argState, wrapper, joins,
                   endless, j, counter, seen, aborted>>

\* The loop condition fails and the callable returns.  A callable that
\* never returns stays "running".
WorkerFinish ==
    /\ ~aborted
    /\ worker = "running"
    /\ ~endless
    /\ j = MaxIter
    /\ worker' = "done"
    /\ UNCHANGED copyVars
    /\ UNCHANGED <<prog, pc, exitKind, exc, t1, s_t, argState, wrapper, joins,
                   endless, j, counter, seen, aborted>>

----------------------------------------------------------------------------
\* The scope's thread: declaration of the handle

\* Variant of Launch that detaches the thread right after starting it.
Launch_Detached ==
    /\ ~aborted
    /\ pc = "decl"
    /\ \E e \in BOOLEAN : endless' = e
    /\ t1' = "detached"
    /\ worker' = "running"
    /\ pc' = "pre"
    /\ UNCHANGED copyVars
    /\ UNCHANGED <<prog, exitKind, exc, s_t, argState, wrapper, joins,
                   j, counter, seen, aborted>>

\* std::thread t1(my_func);
Launch ==
    /\ ~aborted
    /\ pc = "decl"
    /\ \E e \in BOOLEAN : endless' = e
    /\ t1' = "joinable"
    /\ worker' = "running"
    /\ pc' = "pre"
    /\ UNCHANGED copyVars
    /\ UNCHANGED <<prog, exitKind, exc, s_t, argState, wrapper, joins,
                   j, counter, seen, aborted>>

\* std::thread t1;  (a handle that was never started)
DeclareEmpty ==
    /\ ~aborted
    /\ pc = "decl"
    /\ pc' = "pre"
    /\ UNCHANGED copyVars
    /\ UNCHANGED <<prog, exitKind, exc, t1, s_t, argState, wrapper, joins,
                   worker, endless, j, counter, seen, aborted>>

----------------------------------------------------------------------------
\* The scope's thread: operations of the caller on its own handle t1,
\* before the wrapper is constructed or in the scope body

\* An exception leaves the scope by unwinding.
Raise(e) ==
    /\ exc' = e
    /\ exitKind' = "throw"
    /\ pc' = "leave"

\* t1.join(): blocks until the worker has finished; std::system_error on a
\* handle that is not joinable.
CallerJoin ==
    /\ ~aborted
    /\ pc \in {"pre", "body"}
    /\ \/ /\ Joinable(t1)
          /\ JoinCompletes
          /\ t1' = "joined"
          /\ UNCHANGED <<pc, exitKind, exc>>
       \/ /\ ~Joinable(t1)
          /\ Raise("system_error")
          /\ UNCHANGED t1
    /\ UNCHANGED copyVars
    /\ UNCHANGED <<prog, s_t, argState, wrapper, joins,
                   worker, endless, j, counter, seen, aborted>>

\* t1.detach(): the worker keeps running on its own; std::system_error on a
\* handle that is not joinable.
CallerDetach ==
    /\ ~aborted
    /\ pc \in {"pre", "body"}
    /\ \/ /\ Joinable(t1)
          /\ t1' = "detached"
          /\ UNCHANGED <<pc, exitKind, exc>>
       \/ /\ ~Joinable(t1)
          /\ Raise("system_error")
          /\ UNCHANGED t1
    /\ UNCHANGED copyVars
    /\ UNCHANGED <<prog, s_t, argState, wrapper, joins,
                   worker, endless, j, counter, seen, aborted>>

\* std::thread(std::move(t1)).detach(): the caller moves the handle away
\* before wrapping; t1 is left moved-from.
CallerMoveOut ==
    /\ ~aborted
    /\ pc = "pre"
    /\ Joinable(t1)
    /\ t1' = "moved"
    /\ UNCHANGED copyVars
    /\ UNCHANGED <<prog, pc, exitKind, exc, s_t, argState, wrapper, joins,
                   worker, endless, j, counter, seen, aborted>>

----------------------------------------------------------------------------
\* Construction of the wrapper

\* Variant of GuardCtor that validates its argument the way scoped_thread
\* does.
GuardCtor_Validating ==
    /\ ~aborted
    /\ prog = "guard"
    /\ pc = "pre"
    /\ IF ~Joinable(t1)
          THEN /\ wrapper' = "failed"
               /\ Raise("logic_error")
          ELSE /\ wrapper' = "constructed"
               /\ pc' = "body"
               /\ UNCHANGED <<exitKind, exc>>
    /\ UNCHANGED copyVars
    /\ UNCHANGED <<prog, t1, s_t, argState, joins,
                   worker, endless, j, counter, seen, aborted>>

\* thread_guard g1(t1): binds the reference, nothing else.
GuardCtor ==
    /\ ~aborted
    /\ prog = "guard"
    /\ pc = "pre"
    /\ wrapper' = "constructed"
    /\ pc' = "body"
    /\ UNCHANGED copyVars
    /\ UNCHANGED <<prog, exitKind, exc, t1, s_t, argState, joins,
                   worker, endless, j, counter, seen, aborted>>

\* Variant of ScopedCtor without the joinable() test.
ScopedCtor_NoCheck ==
    /\ ~aborted
    /\ prog = "scoped"
    /\ pc = "pre"
    /\ argState' = t1
    /\ s_t' = t1
    /\ t1' = "moved"
    /\ wrapper' = "constructed"
    /\ pc' = "body"
    /\ UNCHANGED copyVars
    /\ UNCHANGED <<prog, exitKind, exc, joins, worker, endless, j, counter,
                   seen, aborted>>

\* Variant of ScopedCtor with the test inverted: if(t.joinable()) throw.
ScopedCtor_Inverted ==
    /\ ~aborted
    /\ prog = "scoped"
    /\ pc = "pre"
    /\ argState' = t1
    /\ s_t' = t1
    /\ t1' = "moved"
    /\ IF Joinable(t1)
          THEN /\ wrapper' = "failed"
               /\ Raise("logic_error")
          ELSE /\ wrapper' = "constructed"
               /\ pc' = "body"
               /\ UNCHANGED <<exitKind, exc>>
    /\ UNCHANGED copyVars
    /\ UNCHANGED <<prog, joins, worker, endless, j, counter, seen, aborted>>

\* Variant of ScopedCtor that takes its member from the argument without
\* emptying the argument (a shared rather than moved handle).
ScopedCtor_Shared ==
    /\ ~aborted
    /\ prog = "scoped"
    /\ pc = "pre"
    /\ argState' = t1
    /\ s_t' = t1
    /\ IF ~Joinable(t1)
          THEN /\ wrapper' = "failed"
               /\ Raise("logic_error")
          ELSE /\ wrapper' = "constructed"
               /\ pc' = "body"
               /\ UNCHANGED <<exitKind, exc>>
    /\ UNCHANGED copyVars
    /\ UNCHANGED <<prog, t1, joins, worker, endless, j, counter, seen, aborted>>

\* scoped_thread s1(std::move(t1)): the member t takes over the state of
\* the argument, the argument is left moved-from; a member that is not
\* joinable makes the constructor throw std::logic_error, and no object
\* (hence no destructor call) results.
ScopedCtor ==
    /\ ~aborted
    /\ prog = "scoped"
    /\ pc = "pre"
    /\ argState' = t1
    /\ s_t' = t1
    /\ t1' = "moved"
    /\ IF ~Joinable(t1)
          THEN /\ wrapper' = "failed"
               /\ Raise("logic_error")
          ELSE /\ wrapper' = "constructed"
               /\ pc' = "body"
               /\ UNCHANGED <<exitKind, exc>>
    /\ UNCHANGED copyVars
    /\ UNCHANGED <<prog, joins, worker, endless, j, counter, seen, aborted>>

----------------------------------------------------------------------------
\* Leaving the scope body

\* Control reaches the closing brace.
ExitFallThrough ==
    /\ ~aborted
    /\ pc = "body"
    /\ exitKind' = "fallthrough"
    /\ pc' = "leave"
    /\ UNCHANGED copyVars
    /\ UNCHANGED <<prog, exc, t1, s_t, argState, wrapper, joins,
                   worker, endless, j, counter, seen, aborted>>

\* return 0;
ExitReturn ==
    /\ ~aborted
    /\ pc = "body"
    /\ exitKind' = "return"
    /\ pc' = "leave"
    /\ UNCHANGED copyVars
    /\ UNCHANGED <<prog, exc, t1, s_t, argState, wrapper, joins,
                   worker, endless, j, counter, seen, aborted>>

\* An error is raised in the scope body and unwinds the scope.
ExitThrow ==
    /\ ~aborted
    /\ pc = "body"
    /\ Raise("error")
    /\ UNCHANGED copyVars
    /\ UNCHANGED <<prog, t1, s_t, argState, wrapper, joins,
                   worker, endless, j, counter, seen, aborted>>

----------------------------------------------------------------------------
\* Destruction of the wrapper (locals are destroyed in reverse order of
\* declaration, so the wrapper goes before t1)

\* Variant of GuardDtor that joins only when the scope is left normally
\* (the join written at the end of the body instead of in the destructor).
GuardDtor_NoJoinOnUnwind ==
    /\ ~aborted
    /\ prog = "guard"
    /\ pc = "leave"
    /\ wrapper = "constructed"
    /\ IF Joinable(t1) /\ exitKind # "throw"
          THEN /\ joins' = joins + 1
               /\ wrapper' = "joining"
          ELSE /\ wrapper' = "disposed"
               /\ UNCHANGED joins
    /\ UNCHANGED copyVars
    /\ UNCHANGED <<prog, pc, exitKind, exc, t1, s_t, argState,
                   worker, endless, j, counter, seen, aborted>>

\* Variant of GuardDtor without the joinable() test: t.join() on a handle
\* that is not joinable throws out of the destructor (std::terminate).
GuardDtor_Unconditional ==
    /\ ~aborted
    /\ prog = "guard"
    /\ pc = "leave"
    /\ wrapper = "constructed"
    /\ joins' = joins + 1
    /\ IF Joinable(t1)
          THEN /\ wrapper' = "joining"
               /\ UNCHANGED aborted
          ELSE /\ aborted' = TRUE
               /\ UNCHANGED wrapper
    /\ UNCHANGED copyVars
    /\ UNCHANGED <<prog, pc, exitKind, exc, t1, s_t, argState,
                   worker, endless, j, counter, seen>>

\* Variant of GuardDtor that detaches a joinable handle instead of joining
\* it.
GuardDtor_Detach ==
    /\ ~aborted
    /\ prog = "guard"
    /\ pc = "leave"
    /\ wrapper = "constructed"
    /\ t1' = IF Joinable(t1) THEN "detached" ELSE t1
    /\ wrapper' = "disposed"
    /\ UNCHANGED copyVars
    /\ UNCHANGED <<prog, pc, exitKind, exc, s_t, argState, joins,
                   worker, endless, j, counter, seen, aborted>>

\* Variant of GuardDtor with the test inverted: if(!t.joinable()) t.join();
\* the join on a handle that is not joinable throws out of the destructor
\* (std::terminate), and a joinable handle is left alone.
GuardDtor_Inverted ==
    /\ ~aborted
    /\ prog = "guard"
    /\ pc = "leave"
    /\ wrapper = "constructed"
    /\ IF ~Joinable(t1)
          THEN /\ joins' = joins + 1
               /\ aborted' = TRUE
               /\ UNCHANGED wrapper
          ELSE /\ wrapper' = "disposed"
               /\ UNCHANGED <<joins, aborted>>
    /\ UNCHANGED copyVars
    /\ UNCHANGED <<prog, pc, exitKind, exc, t1, s_t, argState,
                   worker, endless, j, counter, seen>>

\* thread_guard::~thread_guard(): if(t.joinable()) t.join();
GuardDtor ==
    /\ ~aborted
    /\ prog = "guard"
    /\ pc = "leave"
    /\ wrapper = "constructed"
    /\ IF Joinable(t1)
          THEN /\ joins' = joins + 1
               /\ wrapper' = "joining"
          ELSE /\ wrapper' = "disposed"
               /\ UNCHANGED joins
    /\ UNCHANGED copyVars
    /\ UNCHANGED <<prog, pc, exitKind, exc, t1, s_t, argState,
                   worker, endless, j, counter, seen, aborted>>

\* Variant of GuardJoinReturn that does not wait for the worker (a timed
\* wait that gives up).
GuardJoinReturn_Early ==
    /\ ~aborted
    /\ prog = "guard"
    /\ wrapper = "joining"
    /\ t1' = "joined"
    /\ wrapper' = "disposed"
    /\ UNCHANGED copyVars
    /\ UNCHANGED <<prog, pc, exitKind, exc, s_t, argState, joins,
                   worker, endless, j, counter, seen, aborted>>

\* Variant of GuardJoinReturn after which the guard is live again, so that
\* its destructor runs a second time.
GuardJoinReturn_Reopen ==
    /\ ~aborted
    /\ prog = "guard"
    /\ wrapper = "joining"
    /\ JoinCompletes
    /\ t1' = "joined"
    /\ wrapper' = "constructed"
    /\ UNCHANGED copyVars
    /\ UNCHANGED <<prog, pc, exitKind, exc, s_t, argState, joins,
                   worker, endless, j, counter, seen, aborted>>

\* The join issued by ~thread_guard returns; the destructor ends.
GuardJoinReturn ==
    /\ ~aborted
    /\ prog = "guard"
    /\ wrapper = "joining"
    /\ JoinCompletes
    /\ t1' = "joined"
    /\ wrapper' = "disposed"
    /\ UNCHANGED copyVars
    /\ UNCHANGED <<prog, pc, exitKind, exc, s_t, argState, joins,
                   worker, endless, j, counter, seen, aborted>>

\* Variant of ScopedDtor that detaches instead of joining.
ScopedDtor_Detach ==
    /\ ~aborted
    /\ prog = "scoped"
    /\ pc = "leave"
    /\ wrapper = "constructed"
    /\ s_t' = "detached"
    /\ wrapper' = "disposed"
    /\ UNCHANGED copyVars
    /\ UNCHANGED <<prog, pc, exitKind, exc, t1, argState, joins,
                   worker, endless, j, counter, seen, aborted>>

\* scoped_thread::~scoped_thread(): t.join(); with no test.  join() on a
\* handle that is not joinable throws std::system_error out of a destructor,
\* which calls std::terminate.
ScopedDtor ==
    /\ ~aborted
    /\ prog = "scoped"
    /\ pc = "leave"
    /\ wrapper = "constructed"
    /\ joins' = joins + 1
    /\ IF Joinable(s_t)
          THEN /\ wrapper' = "joining"
               /\ UNCHANGED aborted
          ELSE /\ aborted' = TRUE
               /\ UNCHANGED wrapper
    /\ UNCHANGED copyVars
    /\ UNCHANGED <<prog, pc, exitKind, exc, t1, s_t, argState,
                   worker, endless, j, counter, seen>>

\* Variant of ScopedJoinReturn that gives up waiting (a join with a
\* timeout).
ScopedJoinReturn_Timeout ==
    /\ ~aborted
    /\ prog = "scoped"
    /\ wrapper = "joining"
    /\ s_t' = "joined"
    /\ wrapper' = "disposed"
    /\ UNCHANGED copyVars
    /\ UNCHANGED <<prog, pc, exitKind, exc, t1, argState, joins,
                   worker, endless, j, counter, seen, aborted>>

\* The join issued by ~scoped_thread returns; the destructor ends.
ScopedJoinReturn ==
    /\ ~aborted
    /\ prog = "scoped"
    /\ wrapper = "joining"
    /\ JoinCompletes
    /\ s_t' = "joined"
    /\ wrapper' = "disposed"
    /\ UNCHANGED copyVars
    /\ UNCHANGED <<prog, pc, exitKind, exc, t1, argState, joins,
                   worker, endless, j, counter, seen, aborted>>

----------------------------------------------------------------------------
\* End of the scope

\* std::thread::~thread() of t1, after the wrapper is gone: a handle that
\* is still joinable calls std::terminate.
DestroyHandle ==
    /\ ~aborted
    /\ pc = "leave"
    /\ wrapper \in {"none", "failed", "disposed"}
    /\ IF Joinable(t1)
          THEN /\ aborted' = TRUE
               /\ UNCHANGED pc
          ELSE /\ pc' = "after"
               /\ UNCHANGED aborted
    /\ UNCHANGED copyVars
    /\ UNCHANGED <<prog, exitKind, exc, t1, s_t, argState, wrapper, joins,
                   worker, endless, j, counter, seen>>

\* A join on the worker has returned: everything the worker did
\* happens-before what the scope's thread does next.
Synced == t1 = "joined" \/ s_t = "joined"

\* After the scope the caller reads the shared counter.  Without a
\* completed join the read is unordered with the worker's writes and may
\* return any value written so far.
ReadCounter ==
    /\ ~aborted
    /\ pc = "after"
    /\ seen' \in (IF Synced THEN {counter} ELSE 0..counter)
    /\ pc' = "exited"
    /\ UNCHANGED copyVars
    /\ UNCHANGED <<prog, exitKind, exc, t1, s_t, argState, wrapper, joins,
                   worker, endless, j, counter, aborted>>

----------------------------------------------------------------------------
\* The file copies of listing 2

\* The variables of the wrapper programs, which the file copies leave alone.
scopeVars == <<pc, exitKind, exc, t1, s_t, argState, wrapper, joins,
               worker, endless, j, counter, seen, aborted>>

\* output << line << std::endl on a stream opened with std::ios::app: the
\* line goes to the end of the file; a stream that failed to open drops it.
AppendLine(out, l) == IF outOk THEN Append(out, l) ELSE out

\* write_to_file of sequential.cpp, call for input i: both streams are
\* opened; without the input the function returns false at once.
SeqOpen(i) ==
    /\ prog = "sequential"
    /\ wpc[i] = "open"
    /\ wpc' = [wpc EXCEPT ![i] = IF inOk[i] THEN "loop" ELSE "done"]
    /\ UNCHANGED <<mpc, pos, inLen, inOk, outOk, prior, output, exitCode>>
    /\ UNCHANGED <<prog, scopeVars>>

\* One iteration of while(getline(input, line)): the next line is read and
\* appended to the output.
SeqLine(i) ==
    /\ prog = "sequential"
    /\ wpc[i] = "loop"
    /\ pos[i] < inLen[i]
    /\ pos' = [pos EXCEPT ![i] = pos[i] + 1]
    /\ output' = AppendLine(output, Line(i, pos[i] + 1))
    /\ UNCHANGED <<mpc, wpc, inLen, inOk, outOk, prior, exitCode>>
    /\ UNCHANGED <<prog, scopeVars>>

\* getline fails at the end of the input: both streams are closed and the
\* function returns true.
SeqClose(i) ==
    /\ prog = "sequential"
    /\ wpc[i] = "loop"
    /\ pos[i] = inLen[i]
    /\ wpc' = [wpc EXCEPT ![i] = "done"]
    /\ UNCHANGED <<mpc, pos, inLen, inOk, outOk, prior, output, exitCode>>
    /\ UNCHANGED <<prog, scopeVars>>

\* main: the first call, write_to_file("input/input1.txt", ...)
SeqCall1 ==
    /\ prog = "sequential"
    /\ mpc = "start"
    /\ wpc' = [wpc EXCEPT ![1] = "open"]
    /\ mpc' = "in1"
    /\ UNCHANGED <<pos, inLen, inOk, outOk, prior, output, exitCode>>
    /\ UNCHANGED <<prog, scopeVars>>

\* Variant of SeqReturn1 that does not look at the result of the first
\* call and always goes on to the second.
SeqReturn1_IgnoresResult ==
    /\ prog = "sequential"
    /\ mpc = "in1"
    /\ wpc[1] = "done"
    /\ wpc' = [wpc EXCEPT ![2] = "open"]
    /\ mpc' = "in2"
    /\ UNCHANGED exitCode
    /\ UNCHANGED <<pos, inLen, inOk, outOk, prior, output>>
    /\ UNCHANGED <<prog, scopeVars>>

\* main: the first call returns; on true the second call is made, on false
\* main returns 1.
SeqReturn1 ==
    /\ prog = "sequential"
    /\ mpc = "in1"
    /\ wpc[1] = "done"
    /\ IF inOk[1]
          THEN /\ wpc' = [wpc EXCEPT ![2] = "open"]
               /\ mpc' = "in2"
               /\ UNCHANGED exitCode
          ELSE /\ exitCode' = 1
               /\ mpc' = "exit"
               /\ UNCHANGED wpc
    /\ UNCHANGED <<pos, inLen, inOk, outOk, prior, output>>
    /\ UNCHANGED <<prog, scopeVars>>

\* main: the second call returns; on true the duration is printed and main
\* returns 0, on false main returns 1.
SeqReturn2 ==
    /\ prog = "sequential"
    /\ mpc = "in2"
    /\ wpc[2] = "done"
    /\ exitCode' = IF inOk[2] THEN 0 ELSE 1
    /\ mpc' = "exit"
    /\ UNCHANGED <<wpc, pos, inLen, inOk, outOk, prior, output>>
    /\ UNCHANGED <<prog, scopeVars>>

\* write_to_file of concurrent.cpp, run by thread i: both streams are
\* opened; without the input the function returns at once.
ConcOpen(i) ==
    /\ prog = "concurrent"
    /\ wpc[i] = "open"
    /\ wpc' = [wpc EXCEPT ![i] = IF inOk[i] THEN "loop" ELSE "done"]
    /\ UNCHANGED <<mpc, pos, inLen, inOk, outOk, prior, output, exitCode>>
    /\ UNCHANGED <<prog, scopeVars>>

\* One iteration of while(getline(input, line)) in thread i; the append of
\* the line is one step.
ConcLine(i) ==
    /\ prog = "concurrent"
    /\ wpc[i] = "loop"
    /\ pos[i] < inLen[i]
    /\ pos' = [pos EXCEPT ![i] = pos[i] + 1]
    /\ output' = AppendLine(output, Line(i, pos[i] + 1))
    /\ UNCHANGED <<mpc, wpc, inLen, inOk, outOk, prior, exitCode>>
    /\ UNCHANGED <<prog, scopeVars>>

\* getline fails at the end of the input: the streams are closed and the
\* thread function returns.
ConcClose(i) ==
    /\ prog = "concurrent"
    /\ wpc[i] = "loop"
    /\ pos[i] = inLen[i]
    /\ wpc' = [wpc EXCEPT ![i] = "done"]
    /\ UNCHANGED <<mpc, pos, inLen, inOk, outOk, prior, output, exitCode>>
    /\ UNCHANGED <<prog, scopeVars>>

\* main: std::thread t1(write_to_file, "input/input1.txt", ...)
ConcSpawn1 ==
    /\ prog = "concurrent"
    /\ mpc = "start"
    /\ wpc' = [wpc EXCEPT ![1] = "open"]
    /\ mpc' = "spawn2"
    /\ UNCHANGED <<pos, inLen, inOk, outOk, prior, output, exitCode>>
    /\ UNCHANGED <<prog, scopeVars>>

\* main: std::thread t2(write_to_file, "input/input2.txt", ...)
ConcSpawn2 ==
    /\ prog = "concurrent"
    /\ mpc = "spawn2"
    /\ wpc' = [wpc EXCEPT ![2] = "open"]
    /\ mpc' = "join1"
    /\ UNCHANGED <<pos, inLen, inOk, outOk, prior, output, exitCode>>
    /\ UNCHANGED <<prog, scopeVars>>

\* Variant of ConcJoin1 that does not wait for the thread (t1.detach()
\* written for t1.join()).
ConcJoin1_NoWait ==
    /\ prog = "concurrent"
    /\ mpc = "join1"
    /\ mpc' = "join2"
    /\ UNCHANGED <<wpc, pos, inLen, inOk, outOk, prior, output, exitCode>>
    /\ UNCHANGED <<prog, scopeVars>>

\* main: t1.join() returns once thread 1 has finished.
ConcJoin1 ==
    /\ prog = "concurrent"
    /\ mpc = "join1"
    /\ wpc[1] = "done"
    /\ mpc' = "join2"
    /\ UNCHANGED <<wpc, pos, inLen, inOk, outOk, prior, output, exitCode>>
    /\ UNCHANGED <<prog, scopeVars>>

\* main: t2.join() returns once thread 2 has finished.
ConcJoin2 ==
    /\ prog = "concurrent"
    /\ mpc = "join2"
    /\ wpc[2] = "done"
    /\ mpc' = "stop"
    /\ UNCHANGED <<wpc, pos, inLen, inOk, outOk, prior, output, exitCode>>
    /\ UNCHANGED <<prog, scopeVars>>

\* main: the stop timestamp is taken, the duration printed, return 0.
ConcStop ==
    /\ prog = "concurrent"
    /\ mpc = "stop"
    /\ exitCode' = 0
    /\ mpc' = "exit"
    /\ UNCHANGED <<wpc, pos, inLen, inOk, outOk, prior, output>>
    /\ UNCHANGED <<prog, scopeVars>>

SeqNext ==
    \/ SeqCall1
    \/ \E i \in 1..2 : SeqOpen(i)
    \/ \E i \in 1..2 : SeqLine(i)
    \/ \E i \in 1..2 : SeqClose(i)
    \/ SeqReturn1
    \/ SeqReturn2

ConcNext ==
    \/ ConcSpawn1
    \/ ConcSpawn2
    \/ \E i \in 1..2 : ConcOpen(i)
    \/ \E i \in 1..2 : ConcLine(i)
    \/ \E i \in 1..2 : ConcClose(i)
    \/ ConcJoin1
    \/ ConcJoin2
    \/ ConcStop

----------------------------------------------------------------------------

WorkerNext == WorkerStep \/ WorkerFinish

ScopeNext ==
    \/ Launch
    \/ DeclareEmpty
    \/ CallerJoin
    \/ CallerDetach
    \/ CallerMoveOut
    \/ GuardCtor
    \/ ScopedCtor
    \/ ExitFallThrough
    \/ ExitReturn
    \/ ExitThrow
    \/ GuardDtor
    \/ GuardJoinReturn
    \/ ScopedDtor
    \/ ScopedJoinReturn
    \/ DestroyHandle
    \/ ReadCounter

Next == WorkerNext \/ ScopeNext \/ SeqNext \/ ConcNext

Spec == Init /\ [][Next]_vars

\* The scheduler runs every thread that can take a step.
FairSpec == Spec /\ WF_vars(WorkerNext) /\ WF_vars(ScopeNext)

----------------------------------------------------------------------------
\* main of listing3/thread_guard.cpp as written: t1 runs func (which
\* returns after its loop), g1 guards t1, and main leaves by return 0.

\* std::thread t1(my_func); with my_func a func
MainLaunch == Launch /\ endless' = FALSE

DemoInit == Init /\ prog = "guard"

DemoNext ==
    \/ WorkerStep
    \/ WorkerFinish
    \/ MainLaunch
    \/ GuardCtor
    \/ ExitReturn
    \/ GuardDtor
    \/ GuardJoinReturn
    \/ DestroyHandle

DemoSpec == DemoInit /\ [][DemoNext]_vars

\* main's locals (t1, my_func, some_local_state) are destroyed once the
\* destructor of t1 has run.
LocalsDestroyed == pc \in {"after", "exited"}

----------------------------------------------------------------------------
\* Properties

\* A step of the scope's thread (every step that is not the worker's).
ScopeStep == j' = j /\ worker' = worker

\* The handle the wrapper is responsible for: the caller's t1 for
\* thread_guard (held by reference), the member t for scoped_thread.
WrappedHandle == IF prog = "guard" THEN t1 ELSE s_t

\* C1: scoped_thread built from a joinable handle: once the wrapper is
\* disposed the worker has terminated, the owned handle is joined, no handle
\* is joinable any more, the worker has performed all MaxIter increments and
\* the scope's thread reads exactly MaxIter after the scope.
C1_ScopedDisposedMeansJoined ==
    (prog = "scoped" /\ wrapper = "disposed") =>
        /\ worker = "done"
        /\ s_t = "joined"
        /\ ~Joinable(t1)
        /\ counter = MaxIter
        /\ (pc = "exited" => seen = MaxIter)

C1_Witness ==
    /\ prog = "scoped"
    /\ argState = "joinable"
    /\ wrapper = "disposed"
    /\ pc = "exited"
    /\ seen = MaxIter

\* C2: scoped_thread built from a handle that is not joinable (unstarted,
\* joined, detached or moved-from): the constructor throws std::logic_error
\* at the call site, the scope body is never entered, no wrapper exists and
\* the wrapper code never issues a join (and never terminates the program).
C2_ScopedRejectsNonJoinable ==
    (prog = "scoped" /\ argState \in HandleStates \ {"joinable"}) =>
        /\ wrapper = "failed"
        /\ exc = "logic_error"
        /\ exitKind = "throw"
        /\ pc \in {"leave", "after", "exited"}
        /\ joins = 0
        /\ ~aborted

C2_Witness ==
    /\ prog = "scoped"
    /\ argState = "detached"
    /\ wrapper = "failed"
    /\ exc = "logic_error"
    /\ pc = "exited"

\* C3: whichever way the scope is left (fall-through, return, unwinding),
\* a wrapper that was constructed is disposed before the scope is left; a
\* handle that is joinable when the scope is being left is joined, and only
\* with the worker terminated, so once the wrapper is disposed the handle
\* is not joinable and a joined handle means a terminated worker.
C3_JoinOnEveryExitPath ==
    /\ [](\A k \in {"fallthrough", "return", "throw"} :
            (exitKind = k /\ wrapper \notin {"none", "failed"}) =>
                /\ (pc \in {"after", "exited"} => wrapper = "disposed")
                /\ (wrapper = "disposed" =>
                       /\ ~Joinable(WrappedHandle)
                       /\ (WrappedHandle = "joined" => worker = "done"))
                /\ ~aborted)
    /\ [][(/\ pc = "leave"
           /\ wrapper \notin {"none", "failed"}
           /\ Joinable(WrappedHandle)
           /\ WrappedHandle' # WrappedHandle)
            => (WrappedHandle' = "joined" /\ worker = "done")]_vars

C3_Witness ==
    /\ prog = "guard"
    /\ exitKind = "throw"
    /\ exc = "error"
    /\ wrapper = "disposed"
    /\ joins = 1
    /\ worker = "done"
    /\ pc = "exited"

\* C4: thread_guard whose handle is joinable at disposal: the destructor
\* issues the join, stays in it as long as the worker runs, leaves it only
\* with the worker finished and the handle joined, and does leave it once
\* the worker has finished.
C4_GuardDisposalBlocks ==
    /\ [][(prog = "guard" /\ pc = "leave" /\ wrapper = "constructed"
              /\ ScopeStep /\ Joinable(t1))
            => (wrapper' = "joining" /\ joins' = joins + 1)]_vars
    /\ [][(prog = "guard" /\ wrapper = "joining" /\ wrapper' # wrapper)
            => (worker = "done" /\ wrapper' = "disposed" /\ t1' = "joined")]_vars
    /\ ((prog = "guard" /\ wrapper = "joining" /\ worker = "done")
            ~> (wrapper = "disposed" /\ t1 = "joined"))

C4_Witness ==
    /\ prog = "guard"
    /\ wrapper = "joining"
    /\ worker = "running"
    /\ j < MaxIter

\* C5: thread_guard whose handle was joined or detached by the caller
\* before disposal: the destructor ends in one step without a join, without
\* an error and without touching the handle.
C5_GuardDisposalNoOp ==
    [][(prog = "guard" /\ pc = "leave" /\ wrapper = "constructed"
           /\ ScopeStep /\ t1 \in {"joined", "detached"})
         => (/\ wrapper' = "disposed"
             /\ joins' = joins
             /\ t1' = t1
             /\ worker' = worker
             /\ exc' = exc
             /\ aborted' = aborted)]_vars

\* the detached case: the guard is disposed while the worker still runs
C5_Witness ==
    /\ prog = "guard"
    /\ wrapper = "disposed"
    /\ t1 = "detached"
    /\ worker = "running"
    /\ joins = 0
    /\ pc = "exited"

\* C6: the caller's handle and the wrapper's member never both refer to the
\* worker; while scoped_thread owns the worker the caller's handle is
\* moved-from, and a join or detach by the caller fails without effect on
\* the owned handle or the worker.
C6_ExclusiveOwnership ==
    /\ [](~(Joinable(t1) /\ Joinable(s_t)))
    /\ []((prog = "scoped" /\ wrapper \in {"constructed", "joining"})
             => (t1 = "moved" /\ Joinable(s_t)))
    /\ [][(prog = "scoped" /\ wrapper = "constructed"
              /\ (CallerJoin \/ CallerDetach))
            => (s_t' = s_t /\ worker' = worker /\ exc' = "system_error")]_vars

C6_Witness ==
    /\ prog = "scoped"
    /\ wrapper = "constructed"
    /\ exc = "system_error"
    /\ Joinable(s_t)
    /\ t1 = "moved"
    /\ worker = "running"

\* C7: scoped_thread: from successful construction until the destructor
\* issues its join the member is joinable, so that join is never issued on
\* a handle that is not joinable.
C7_ScopedJoinAlwaysValid ==
    /\ (prog = "scoped" /\ wrapper = "constructed") => Joinable(s_t)
    /\ (prog = "scoped" /\ joins > 0) =>
           (~aborted /\ s_t \in {"joinable", "joined"})

C7_Witness ==
    /\ prog = "scoped"
    /\ wrapper = "joining"
    /\ joins = 1
    /\ Joinable(s_t)

\* C8: thread_guard accepts any handle: construction never throws and
\* leaves the handle alone; around a handle that was never started the
\* destructor does nothing (no join, no wait, no error).
C8_GuardAcceptsUnstarted ==
    /\ [](prog = "guard" => (wrapper # "failed" /\ exc # "logic_error"))
    /\ [][(prog = "guard" /\ pc = "pre" /\ wrapper' # wrapper)
            => (wrapper' = "constructed" /\ t1' = t1 /\ exc' = exc
                /\ pc' = "body")]_vars
    /\ [][(prog = "guard" /\ pc = "leave" /\ wrapper = "constructed"
              /\ ScopeStep /\ t1 = "unstarted")
            => (wrapper' = "disposed" /\ joins' = joins /\ t1' = t1
                /\ aborted' = aborted /\ exc' = exc)]_vars

C8_Witness ==
    /\ prog = "guard"
    /\ t1 = "unstarted"
    /\ worker = "none"
    /\ wrapper = "disposed"
    /\ joins = 0
    /\ pc = "exited"

\* C9: with a worker that never terminates, a wrapper (of either kind) that
\* has issued its join never leaves it: it is never disposed and the scope
\* is never left.
C9_EndlessWorkerBlocksDisposal ==
    /\ []((endless /\ joins > 0) =>
             (wrapper = "joining" /\ pc = "leave" /\ worker = "running"))
    /\ [][(endless /\ wrapper = "joining")
            => (wrapper' = "joining" /\ pc' = pc)]_vars

C9_Witness ==
    /\ prog = "scoped"
    /\ endless
    /\ wrapper = "joining"
    /\ worker = "running"
    /\ j = MaxIter

\* C10: the wrapper goes constructed -> (joining ->) disposed and never
\* back; it issues a join only on entering its destructor, at most once,
\* and after it is disposed neither its state, its join count nor the
\* wrapped handle changes.
C10_WrapperLifecycle ==
    /\ [](joins <= 1)
    /\ [][/\ (wrapper = "disposed" =>
                 (wrapper' = "disposed" /\ joins' = joins
                  /\ WrappedHandle' = WrappedHandle))
          /\ (wrapper = "failed" => (wrapper' = "failed" /\ joins' = joins))
          /\ (wrapper = "joining" => wrapper' \in {"joining", "disposed"})
          /\ (wrapper = "constructed" =>
                 wrapper' \in {"constructed", "joining", "disposed"})
          /\ (joins' # joins =>
                 (wrapper = "constructed" /\ wrapper' = "joining"
                  /\ pc = "leave"))]_vars

C10_Witness ==
    /\ prog = "guard"
    /\ wrapper = "disposed"
    /\ joins = 1
    /\ pc = "exited"

\* C11: thread_guard never changes who owns the handle: constructing it
\* leaves the caller's handle as it was and creates no second handle; from
\* construction to the end of disposal the only change the guard makes to
\* the handle is joinable -> joined; it never detaches, moves or replaces it.
C11_GuardOnlyJoins ==
    /\ [](prog = "guard" => (s_t = "none" /\ argState = "none"))
    /\ [][(prog = "guard" /\ pc = "pre" /\ wrapper' # wrapper)
            => (t1' = t1 /\ worker' = worker)]_vars
    /\ [][(prog = "guard" /\ pc = "leave"
              /\ wrapper \in {"constructed", "joining"} /\ ScopeStep)
            => (\/ t1' = t1
                \/ (Joinable(t1) /\ t1' = "joined" /\ wrapper = "joining"))]_vars

C11_Witness ==
    /\ prog = "guard"
    /\ wrapper = "joining"
    /\ Joinable(t1)
    /\ s_t = "none"
    /\ worker = "done"

\* C12 as stated, for the handle t1 that the caller hands to scoped_thread:
\* it is joinable exactly when it was constructed from launched work and
\* has not been joined or detached.
C12_Original ==
    (prog = "scoped" /\ argState = "joinable") =>
        (Joinable(t1) <=> (worker # "none" /\ t1 \notin {"joined", "detached"}))

\* C12, amended: a handle is joinable exactly when it holds launched work
\* (constructed from it, or received by move) and has not been joined,
\* detached or moved from; the worker finishing changes no handle, and a
\* join completed by the wrapper leaves the handle not joinable.
C12_JoinableIff ==
    /\ [](prog \in {"guard", "scoped"} =>
            (Joinable(t1) <=>
                (worker # "none" /\ t1 \notin {"joined", "detached", "moved"})))
    /\ [](prog = "scoped" =>
            (Joinable(s_t) <=>
                (argState = "joinable" /\ s_t \notin {"joined", "detached"})))
    /\ []((wrapper = "disposed" /\ joins = 1) =>
            (WrappedHandle = "joined" /\ ~Joinable(t1)))
    /\ [][(worker = "running" /\ worker' = "done")
            => (t1' = t1 /\ s_t' = s_t)]_vars

\* a handle that is still joinable although its worker has finished
C12_Witness ==
    /\ prog = "scoped"
    /\ Joinable(s_t)
    /\ t1 = "moved"
    /\ worker = "done"
    /\ wrapper = "constructed"

\* C13: in main of the thread_guard demo t1 is never destroyed while
\* joinable (std::terminate is never called): g1 is disposed before t1 is
\* destroyed and its disposal has joined t1.
C13_HandleNotDestroyedJoinable ==
    /\ [](~aborted)
    /\ [](wrapper = "disposed" => (t1 = "joined" /\ joins = 1))
    /\ [][(pc = "leave" /\ pc' # pc)
            => (wrapper = "disposed" /\ ~Joinable(t1))]_vars

C13_Witness ==
    /\ prog = "guard"
    /\ exitKind = "return"
    /\ pc = "after"
    /\ t1 = "joined"
    /\ joins = 1
    /\ ~aborted

\* C14: in the thread_guard demo the worker, which reads some_local_state
\* in every iteration of its loop, takes no step once main's locals are
\* destroyed: by then it has terminated.
C14_NoAccessAfterLifetime ==
    /\ [](LocalsDestroyed => worker = "done")
    /\ [][(j' # j \/ worker' # worker) => (~LocalsDestroyed /\ worker' # "none")]_vars

C14_Witness ==
    /\ prog = "guard"
    /\ LocalsDestroyed
    /\ worker = "done"
    /\ counter = MaxIter
    /\ exitKind = "return"

\* What the run has appended to the output file.
Appended == SubSeq(output, Len(prior) + 1, Len(output))

\* l is (the text of) a line of input i.
IsLineOf(l, i) == \E k \in 1..inLen[i] : l = Line(i, k)

\* The lines of input i within a sequence of lines, in order.
FromInput(seq, i) == SelectSeq(seq, LAMBDA l : IsLineOf(l, i))

\* What write_to_file copies of input i: all its lines if it can be
\* opened, nothing otherwise.
Copied(i) == IF inOk[i] THEN Lines(i) ELSE << >>

\* C15 as stated, where both inputs and the output can be opened: when
\* main has exited both workers have terminated and the output file holds
\* every line of input1 and of input2 exactly once, each input's lines in
\* their order.
C15_Original ==
    (prog = "concurrent" /\ mpc = "exit" /\ inOk[1] /\ inOk[2] /\ outOk) =>
        /\ wpc[1] = "done" /\ wpc[2] = "done"
        /\ \A i \in 1..2 : FromInput(output, i) = Lines(i)

\* C15, amended: main takes the stop timestamp and exits only after both
\* workers have terminated, and at exit the output file holds what it held
\* before the run followed by what the run appended: every line of each
\* input that could be opened exactly once, each input's lines in their
\* order, and nothing else (nothing at all if the output could not be
\* opened).
C15_ConcurrentCopy ==
    /\ (prog = "concurrent" /\ mpc \in {"stop", "exit"}) =>
           (wpc[1] = "done" /\ wpc[2] = "done")
    /\ (prog = "concurrent" /\ mpc = "exit" /\ outOk) =>
           /\ SubSeq(output, 1, Len(prior)) = prior
           /\ \A i \in 1..2 : FromInput(Appended, i) = Copied(i)
           /\ Len(Appended) = Len(Copied(1)) + Len(Copied(2))
    /\ (prog = "concurrent" /\ ~outOk) => output = prior

\* lines of the two inputs interleaved behind earlier content
C15_Witness ==
    /\ prog = "concurrent"
    /\ mpc = "exit"
    /\ prior = <<Line(1, 1)>>
    /\ output = <<Line(1, 1), Line(2, 1), Line(1, 1), Line(1, 2), Line(2, 2)>>

\* C16 as stated: the copy of input2 starts only after the copy of input1
\* has succeeded, a run that returns 0 leaves the output equal to the lines
\* of input1 followed by the lines of input2, main returns 0 exactly when
\* both inputs could be opened, and returns 1 with nothing of input2
\* copied when input1 cannot be opened.
C16_Original ==
    prog = "sequential" =>
        /\ wpc[2] # "idle" => (wpc[1] = "done" /\ inOk[1])
        /\ (mpc = "exit" /\ exitCode = 0 /\ outOk) =>
               output = Lines(1) \o Lines(2)
        /\ mpc = "exit" => (exitCode = 0 <=> (inOk[1] /\ inOk[2]))
        /\ (mpc = "exit" /\ ~inOk[1]) => (exitCode = 1 /\ pos[2] = 0)

\* C16, amended: as stated, except that the lines are appended: at exit the
\* output file holds what it held before the run followed by the lines of
\* input1 (if it could be opened) and then the lines of input2 (if both
\* could be opened); nothing is appended if the output could not be opened.
C16_SequentialCopy ==
    prog = "sequential" =>
        /\ wpc[2] # "idle" =>
               (wpc[1] = "done" /\ inOk[1] /\ pos[1] = inLen[1])
        /\ (mpc = "exit" /\ outOk) =>
               output = prior \o Copied(1)
                          \o (IF inOk[1] THEN Copied(2) ELSE << >>)
        /\ ~outOk => output = prior
        /\ mpc = "exit" =>
               (exitCode \in {0, 1} /\ (exitCode = 0 <=> (inOk[1] /\ inOk[2])))
        /\ (mpc = "exit" /\ ~inOk[1]) =>
               (exitCode = 1 /\ wpc[2] = "idle" /\ pos[2] = 0)

C16_Witness ==
    /\ prog = "sequential"
    /\ mpc = "exit"
    /\ exitCode = 0
    /\ prior = <<Line(0, 0)>>
    /\ output = <<Line(0, 0), Line(1, 1), Line(1, 2), Line(2, 1), Line(2, 2)>>

====
